---------------------------- MODULE Spec2Model ----------------------------
(***************************************************************************)
(* A model of atomsmm (src/src/atomsmm/forces.py, src/src/atomsmm/utils.py) *)
(*                                                                         *)
(* Distances are integers on a grid (one grid step is an arbitrary length   *)
(* unit); a Quantity is modelled by its value on that grid.  Energies are   *)
(* exact rationals [num, den].  The values of the pair potential terms      *)
(* LennardJones(x) and Coulomb(x) at the distances an expression reads are  *)
(* inputs: they range over small integer sets as the particle parameters    *)
(* (charge, sigma, epsilon) range over their space.                         *)
(***************************************************************************)
EXTENDS Integers, Sequences, FiniteSets, TLC

VARIABLES
    held,     \* forces.py: the Force object the caller holds (None at start)
    last,     \* forces.py: the outcome of the last constructor call
    heap,     \* utils.py: the System objects, by reference ("caller", "copy")
    result,   \* utils.py: the value returned by the last utility call
    src,      \* forces.py: the openmm.NonbondedForce parameters are imported from
    obj,      \* forces.py: the Force object importFrom/includeExceptions act on
    lastOp,   \* forces.py: the last method called on obj, and how it ended
    nimports, \* forces.py: how many times importFrom was called on obj
    lastGroup \* forces.py: the argument of the last setForceGroup call on obj
              \* (0, the group of Force.__init__, before any call)

vars == <<held, last, heap, result, src, obj, lastOp, nimports, lastGroup>>

(***************************************************************************)
(* Bounds of the model.                                                    *)
(***************************************************************************)
MaxDist == 3
MaxDegree == 2
MaxForces == 3
MaxParticles == 3
MaxConstraints == 2
MaxExceptions == 2
MaxIncludes == 1
MaxImports == 2

Dists == 1..MaxDist                 \* pair distances r > 0
Cutoffs == 0..MaxDist               \* cutoff_distance arguments
Switches == (0 - 1)..MaxDist        \* switch_distance arguments (may be negative)
Degrees == 1..MaxDegree
Alphas == {1}
Methods == {"PME", "CutoffPeriodic"}
LJVals == {0 - 1, 2}                \* values of LennardJones(x)
CoulVals == {0, 1}                  \* values of Coulomb(x)

\* Python's None, as an object and as an optional distance.
None == [cls |-> "NoneType"]
NoDist == <<>>
Some(d) == <<d>>

(***************************************************************************)
(* utils.py: the energy expression fragments.  A pair potential pot gives   *)
(* the value of each fragment at the distances it is read at.               *)
(***************************************************************************)
LennardJones(pot, x) == pot.lj[x]
Coulomb(pot, x) == pot.coul[x]
PairPotentials(ds) == [lj : [ds -> LJVals], coul : [ds -> CoulVals]]

\* The expression engine's step(x): 0 if x < 0, 1 otherwise.
step(x) == IF x < 0 THEN 0 ELSE 1

RECURSIVE Pow(_, _)
Pow(b, n) == IF n = 0 THEN 1 ELSE b * Pow(b, n - 1)

Rat(n, d) == [num |-> n, den |-> d]
RatZero == Rat(0, 1)
RatEq(a, b) == a.num * b.den = b.num * a.den
RatNeg(a) == Rat(0 - a.num, a.den)
RatScale(a, k) == Rat(a.num * k, a.den)

(***************************************************************************)
(* forces.py:323-324 and 429-430: the explicit switching multiplier         *)
(*   S = 1 + step(r - rswitch)*u^3*(15*u - 6*u^2 - 10)                      *)
(*   u = (r^n - rswitch^n)/(rcut^n - rswitch^n)                             *)
(* as the exact rational (D^5 + step*N^3*(15*N*D - 6*N^2 - 10*D^2)) / D^5   *)
(* with N = r^n - rswitch^n and D = rcut^n - rswitch^n.                     *)
(***************************************************************************)
\* (ExplicitSAlt: the same with the denominator of u left linear in r.)
ExplicitSAlt(r, rswitch, rcut, n) ==
    LET N == Pow(r, n) - Pow(rswitch, n)
        D == rcut - rswitch
        D5 == Pow(D, 5)
    IN  IF step(r - rswitch) = 0
        THEN Rat(D5, D5)
        ELSE Rat(D5 + N * N * N * (15 * N * D - 6 * N * N - 10 * D * D), D5)
ExplicitS(r, rswitch, rcut, n) ==
    LET N == Pow(r, n) - Pow(rswitch, n)
        D == Pow(rcut, n) - Pow(rswitch, n)
        D5 == Pow(D, 5)
    IN  IF step(r - rswitch) = 0
        THEN Rat(D5, D5)
        ELSE Rat(D5 + N * N * N * (15 * N * D - 6 * N * N - 10 * D * D), D5)

(***************************************************************************)
(* forces.py: the OpenMM kernels the package extends.  A new openmm.Force   *)
(* is in force group 0.                                                     *)
(***************************************************************************)
\* _NonbondedForce.__init__
_NonbondedForce(cutoff_distance, switch_distance, nonbondedMethod) ==
    [cls |-> "_NonbondedForce",
     group |-> 0,
     method |-> nonbondedMethod,
     cutoff |-> cutoff_distance,
     dispersion |-> TRUE,
     useSwitch |-> switch_distance /= NoDist,
     switchDist |-> switch_distance,
     particles |-> <<>>,
     exceptions |-> <<>>]

\* _CustomNonbondedForce.__init__
_CustomNonbondedForce(energy, cutoff_distance, switch_distance, globals) ==
    [cls |-> "_CustomNonbondedForce",
     group |-> 0,
     energy |-> energy,
     globals |-> globals,
     method |-> "CutoffPeriodic",
     cutoff |-> cutoff_distance,
     dispersion |-> FALSE,
     useSwitch |-> switch_distance /= NoDist,
     switchDist |-> switch_distance,
     particles |-> <<>>,
     exclusions |-> <<>>]

\* _CustomBondForce.__init__
_CustomBondForce ==
    [cls |-> "_CustomBondForce",
     group |-> 0,
     energy |-> [form |-> "LJ+Coulomb"],
     bonds |-> <<>>]

\* openmm.Force.setForceGroup on one kernel
KernelSetForceGroup(force, group) == [force EXCEPT !.group = group]

\* Force.setForceGroup: every member gets the group
setForceGroup(self, group) ==
    [self EXCEPT !.forces =
        [i \in 1..Len(self.forces) |-> KernelSetForceGroup(self.forces[i], group)]]

\* Force.getForceGroup
getForceGroup(self) == self.forces[1].group

\* Force.__init__
Force(cls, forces) == setForceGroup([cls |-> cls, forces |-> forces], 0)

(***************************************************************************)
(* The outcome of a constructor call: the object, or InputError raised;     *)
(* created counts the kernel objects built before the call ended.           *)
(***************************************************************************)
Raised(n) == [raised |-> TRUE, obj |-> None, created |-> n]
Built(o) == [raised |-> FALSE, obj |-> o, created |-> Len(o.forces)]

\* DampedSmoothedForce.__init__: the argument check
\* (DampedSmoothedBadAlt: the same with > for >=.)
DampedSmoothedBadAlt(cutoff_distance, switch_distance) ==
    switch_distance < 0 \/ switch_distance > cutoff_distance
DampedSmoothedBad(cutoff_distance, switch_distance) ==
    switch_distance < 0 \/ switch_distance >= cutoff_distance

\* DampedSmoothedForce.__init__: which switching the kernel is given
\* (DampedSmoothedExprAlt: the explicit multiplier emitted for every degree.)
DampedSmoothedExprAlt(degree) ==
    [form |-> "DampedSmoothed",
     explicitS |-> TRUE,
     degree |-> degree]
DampedSmoothedExpr(degree) ==
    [form |-> "DampedSmoothed",
     explicitS |-> degree /= 1,
     degree |-> degree]

\* DampedSmoothedForce.__init__
DampedSmoothedForce(alpha, cutoff_distance, switch_distance, degree) ==
    IF DampedSmoothedBad(cutoff_distance, switch_distance)
    THEN Raised(0)
    ELSE Built(Force("DampedSmoothedForce",
            << _CustomNonbondedForce(
                   DampedSmoothedExpr(degree),
                   cutoff_distance,
                   IF degree = 1 THEN Some(switch_distance) ELSE NoDist,
                   [alpha |-> alpha, rswitch |-> switch_distance,
                    rcut |-> cutoff_distance]) >>))

\* NonbondedExceptionsForce.__init__
NonbondedExceptionsForce ==
    Built(Force("NonbondedExceptionsForce", << _CustomBondForce >>))

\* NearNonbondedForce.__init__
NearNonbondedForce(cutoff_distance, switch_distance, shifted) ==
    LET force == _CustomNonbondedForce(
                     [form |-> "Near", shifted |-> shifted],
                     cutoff_distance, Some(switch_distance),
                     [rc0 |-> cutoff_distance])
        base == Force("NearNonbondedForce", << force >>)
    IN  Built([cls |-> base.cls, forces |-> base.forces,
               index |-> 0,
               rswitch |-> switch_distance,
               rcut |-> cutoff_distance,
               shifted |-> shifted])

\* FarNonbondedForce.__init__: the isinstance check on 'preceding'
\* (IsNearAlt: the same against the wrong class.)
IsNearAlt(preceding) == preceding.cls = "FarNonbondedForce"
IsNear(preceding) == preceding.cls = "NearNonbondedForce"

\* FarNonbondedForce.__init__
FarNonbondedForce(preceding, cutoff_distance, switch_distance, nonbondedMethod) ==
    IF ~IsNear(preceding)
    THEN Raised(0)
    ELSE LET discount == _CustomNonbondedForce(
                             [form |-> "discount",
                              shifted |-> preceding.shifted,
                              index |-> preceding.index],
                             cutoff_distance, NoDist,
                             [rs |-> preceding.rswitch, rc |-> preceding.rcut])
             total == _NonbondedForce(cutoff_distance, switch_distance,
                                      nonbondedMethod)
         IN  Built(Force("FarNonbondedForce", << total, discount >>))

(***************************************************************************)
(* What the toolkit computes for one pair at distance r from a kernel built *)
(* by forces.py.  It refuses to evaluate a kernel whose switching distance  *)
(* is not in [0, cutoff); a pair at or beyond the cutoff contributes 0; the *)
(* built-in switching function multiplies the expression between the        *)
(* switching distance and the cutoff.                                       *)
(***************************************************************************)
RatMul(a, b) == Rat(a.num * b.num, a.den * b.den)

\* _CustomNonbondedForce.__init__: setUseSwitchingFunction/setSwitchingDistance
Evaluable(kernel) ==
    kernel.useSwitch =>
        (0 <= kernel.switchDist[1] /\ kernel.switchDist[1] < kernel.cutoff)

\* The built-in switching function (NearNonbondedForce's documented S(r)):
\* 1 for r <= rs, else 1 + t^3*(-10 + t*(15 - 6*t)), t = (r - rs)/(rc - rs).
BuiltinS(r, rs, rc) ==
    LET x == r - rs
        D == rc - rs
        D5 == Pow(D, 5)
    IN  IF r <= rs
        THEN Rat(D5, D5)
        ELSE Rat(D5 + x * x * x * (x * (15 * D - 6 * x) - 10 * D * D), D5)

\* NearNonbondedForce.__init__: the energy expression
\*   LJ(r)+Coulomb(r) [-(LJ(rc0)+Coulomb(rc0)) if shifted]
NearExpr(kernel, pot, r) ==
    LET rc0 == kernel.globals.rc0
        potential == LennardJones(pot, r) + Coulomb(pot, r)
    IN  IF kernel.energy.shifted
        THEN Rat(potential - (LennardJones(pot, rc0) + Coulomb(pot, rc0)), 1)
        ELSE Rat(potential, 1)

\* FarNonbondedForce.__init__: the multiplier S of 'discount' (u linear in r)
DiscountS(kernel, r) == ExplicitS(r, kernel.globals.rs, kernel.globals.rc, 1)

\* FarNonbondedForce.__init__: the energy expression of 'discount'
\*   step(rc-r)*S*(-(LJ(r)+Coulomb(r)) [+LJ(rc)+Coulomb(rc) if shifted])
\* (DiscountExprAlt: the same with the shift added whatever 'shifted' is.)
DiscountExprAlt(kernel, pot, r) ==
    LET rs == kernel.globals.rs
        rc == kernel.globals.rc
        potential == 0 - (LennardJones(pot, r) + Coulomb(pot, r))
                       + LennardJones(pot, rc) + Coulomb(pot, rc)
    IN  IF step(rc - r) = 0
        THEN RatZero
        ELSE RatScale(DiscountS(kernel, r), potential)
DiscountExpr(kernel, pot, r) ==
    LET rs == kernel.globals.rs
        rc == kernel.globals.rc
        potential == 0 - (LennardJones(pot, r) + Coulomb(pot, r))
        shift == IF kernel.energy.shifted
                 THEN LennardJones(pot, rc) + Coulomb(pot, rc)
                 ELSE 0
    IN  IF step(rc - r) = 0
        THEN RatZero
        ELSE RatScale(DiscountS(kernel, r), potential + shift)

\* The pair energy of a _CustomNonbondedForce kernel at distance r.
KernelEnergy(kernel, pot, r) ==
    LET value == IF kernel.energy.form = "Near"
                 THEN NearExpr(kernel, pot, r)
                 ELSE DiscountExpr(kernel, pot, r)
    IN  IF r >= kernel.cutoff
        THEN RatZero
        ELSE IF kernel.useSwitch
             THEN RatMul(value, BuiltinS(r, kernel.switchDist[1], kernel.cutoff))
             ELSE value

\* DampedSmoothedForce.__init__: the multiplier S of the energy expression
DampedSmoothedS(kernel, r) ==
    IF kernel.energy.explicitS
    THEN ExplicitS(r, kernel.globals.rswitch, kernel.globals.rcut,
                   kernel.energy.degree)
    ELSE Rat(1, 1)

(***************************************************************************)
(* Constructor calls.  A call that raises leaves the caller's variable as   *)
(* it was.                                                                  *)
(***************************************************************************)
Outcome(op, out, cut, sw, prec) ==
    [op |-> op, raised |-> out.raised, created |-> out.created,
     cut |-> cut, sw |-> sw, prec |-> prec]

Kept(out) == IF out.raised THEN held ELSE out.obj

CallDampedSmoothedForce ==
    \E alpha \in Alphas, cutoff_distance \in Cutoffs,
       switch_distance \in Switches, degree \in Degrees :
        LET out == DampedSmoothedForce(alpha, cutoff_distance,
                                       switch_distance, degree)
        IN  /\ held' = Kept(out)
            /\ last' = Outcome("DampedSmoothedForce", out,
                               Some(cutoff_distance), Some(switch_distance), None)
            /\ UNCHANGED <<heap, result, src, obj, lastOp, nimports, lastGroup>>

\* tests/test_DampedSmoothedForce.py: execute(degree) calls
\* DampedSmoothedForce(alpha, rswitch, rcut, degree=degree) with rswitch < rcut
TestExecute ==
    \E alpha \in Alphas, rswitch \in Cutoffs, rcut \in Cutoffs,
       degree \in Degrees :
        LET out == DampedSmoothedForce(alpha, rswitch, rcut, degree)
        IN  /\ rswitch < rcut
            /\ held' = Kept(out)
            /\ last' = Outcome("execute", out, Some(rswitch), Some(rcut), None)
            /\ UNCHANGED <<heap, result, src, obj, lastOp, nimports, lastGroup>>

CallNonbondedExceptionsForce ==
    LET out == NonbondedExceptionsForce
    IN  /\ held' = Kept(out)
        /\ last' = Outcome("NonbondedExceptionsForce", out, NoDist, NoDist, None)
        /\ UNCHANGED <<heap, result, src, obj, lastOp, nimports, lastGroup>>

CallNearNonbondedForce ==
    \E cutoff_distance \in Dists, switch_distance \in Switches,
       shifted \in BOOLEAN :
        LET out == NearNonbondedForce(cutoff_distance, switch_distance, shifted)
        IN  /\ held' = Kept(out)
            /\ last' = Outcome("NearNonbondedForce", out,
                               Some(cutoff_distance), Some(switch_distance), None)
            /\ UNCHANGED <<heap, result, src, obj, lastOp, nimports, lastGroup>>

\* The switch_distance arguments tried for FarNonbondedForce: none, negative,
\* zero, and the largest distance.
FarSwitches == {NoDist, Some(0 - 1), Some(0), Some(MaxDist)}

CallFarNonbondedForce ==
    \E cutoff_distance \in Dists, switch_distance \in FarSwitches,
       nonbondedMethod \in Methods :
        LET out == FarNonbondedForce(held, cutoff_distance, switch_distance,
                                     nonbondedMethod)
        IN  /\ held' = Kept(out)
            /\ last' = Outcome("FarNonbondedForce", out, NoDist, NoDist, held)
            /\ UNCHANGED <<heap, result, src, obj, lastOp, nimports, lastGroup>>

NoCall == [op |-> "none", raised |-> FALSE, created |-> 0,
           cut |-> NoDist, sw |-> NoDist, prec |-> None]

EmptySystem == [forces |-> <<>>, masses |-> <<>>, constraints |-> 0]
NoResult == [fn |-> "none"]
EmptySource == [particles |-> <<>>, exceptions |-> <<>>]

InitForces ==
    /\ held = None
    /\ last = NoCall
    /\ heap = [caller |-> EmptySystem, copy |-> EmptySystem]
    /\ result = NoResult
    /\ src = EmptySource
    /\ obj = None
    /\ lastOp = "none"
    /\ nimports = 0
    /\ lastGroup = 0

NextForces ==
    \/ CallDampedSmoothedForce
    \/ TestExecute
    \/ CallNonbondedExceptionsForce
    \/ CallNearNonbondedForce
    \/ CallFarNonbondedForce

SpecForces == InitForces /\ [][NextForces]_vars

(***************************************************************************)
(* utils.py.  A System holds its forces (for the energy split: the class    *)
(* name of each, its force group, and e, the energy it contributes at the   *)
(* given positions), the particle masses and the number of constraints.     *)
(* Systems live in a heap and are passed by reference, so that a copy and   *)
(* an alias differ.                                                         *)
(***************************************************************************)
ForceTypes == {"HarmonicBondForce", "NonbondedForce"}
Groups == {0, 1}
Energies == {0 - 1, 2}
Masses == {0, 1, 2}

ForceRecs == [cls : ForceTypes, group : Groups, e : Energies]

RECURSIVE SeqsUpTo(_, _)
SeqsUpTo(S, n) ==
    IF n = 0 THEN {<<>>}
    ELSE LET shorter == SeqsUpTo(S, n - 1)
         IN  shorter \cup {Append(q, x) : q \in {t \in shorter : Len(t) = n - 1},
                                          x \in S}

\* Python dicts, as functions with a finite domain.
EmptyDict == [k \in {} |-> 0]
Put(d, k, v) == [x \in (DOMAIN d) \cup {k} |-> IF x = k THEN v ELSE d[x]]

\* copy.deepcopy(system): a new System object with the same contents
\* (deepcopyAlt: the same object, not a copy.)
deepcopyAlt(h, ref) == [heap |-> h, ref |-> ref]
deepcopy(h, ref) == [heap |-> [h EXCEPT !.copy = h[ref]], ref |-> "copy"]

\* splitPotentialEnergy: for (index, force) in enumerate(forces):
\*                           force.setForceGroup(index)
DecorateGroups(system) ==
    [system EXCEPT !.forces =
        [i \in 1..Len(system.forces) |->
            KernelSetForceGroup(system.forces[i], i - 1)]]

\* context.getState(getEnergy=True, groups={g}).getPotentialEnergy(): the
\* energy of the forces of the system that are in group g
RECURSIVE GroupEnergyFrom(_, _, _)
GroupEnergyFrom(system, g, i) ==
    IF i > Len(system.forces) THEN 0
    ELSE (IF system.forces[i].group = g THEN system.forces[i].e ELSE 0)
         + GroupEnergyFrom(system, g, i + 1)
GroupEnergy(system, g) == GroupEnergyFrom(system, g, 1)

\* The dict keys: forceType, "%s(%d)" % (forceType, n), and "Total".  A class
\* name is an identifier, so the formatted key is the pair (forceType, n).
Bare(forceType) == [type |-> forceType, n |-> <<>>]
Numbered(forceType, n) == [type |-> forceType, n |-> <<n>>]
Total == Bare("Total")

\* splitPotentialEnergy: terms[forceType] += 1
\* (BumpTermAlt: the counter left as it is.)
BumpTermAlt(terms, forceType) == terms
BumpTerm(terms, forceType) == Put(terms, forceType, terms[forceType] + 1)

\* splitPotentialEnergy: the loop that fills 'terms' and 'energy'
RECURSIVE SplitLoop(_, _, _, _)
SplitLoop(system, index, terms, energy) ==
    IF index >= Len(system.forces)
    THEN energy
    ELSE LET force == system.forces[index + 1]
             state == GroupEnergy(system, index)
             forceType == force.cls
         IN  IF forceType \notin DOMAIN terms
             THEN SplitLoop(system, index + 1,
                            Put(terms, forceType, 0),
                            Put(energy, Bare(forceType), state))
             ELSE LET bumped == BumpTerm(terms, forceType)
                  IN  SplitLoop(system, index + 1, bumped,
                                Put(energy,
                                    Numbered(forceType, bumped[forceType]),
                                    state))

\* sum(energy.values(), 0.0*unit.kilojoules_per_mole)
RECURSIVE SumValuesFrom(_, _, _)
SumValuesFrom(d, keys, start) ==
    IF keys = {} THEN start
    ELSE LET k == CHOOSE x \in keys : TRUE
         IN  SumValuesFrom(d, keys \ {k}, start + d[k])
\* (SumValuesAlt: the sum over the un-numbered keys only.)
SumValuesAlt(d) == SumValuesFrom(d, {k \in DOMAIN d : k.n = <<>>}, 0)
SumValues(d) == SumValuesFrom(d, DOMAIN d, 0)

\* splitPotentialEnergy(system, topology, positions): the heap afterwards and
\* the dict returned
splitPotentialEnergy(h, system) ==
    LET c == deepcopy(h, system)
        syscopy == c.ref
        h2 == [c.heap EXCEPT ![syscopy] = DecorateGroups(c.heap[syscopy])]
        energy == SplitLoop(h2[syscopy], 0, EmptyDict, EmptyDict)
    IN  [heap |-> h2, value |-> Put(energy, Total, SumValues(energy))]

\* countDegreesOfFreedom: sum(3 for i in range(N) if mass(i) > 0)
\* (MovingAlt: the same with >= for >.)
MovingAlt(mass) == mass >= 0
Moving(mass) == mass > 0
RECURSIVE SumMoving(_, _)
SumMoving(masses, i) ==
    IF i > Len(masses) THEN 0
    ELSE (IF Moving(masses[i]) THEN 3 ELSE 0) + SumMoving(masses, i + 1)

\* countDegreesOfFreedom(system)
countDegreesOfFreedom(system) ==
    LET dof == SumMoving(system.masses, 1) - 3
    IN  dof - system.constraints

CallSplitPotentialEnergy ==
    LET out == splitPotentialEnergy(heap, "caller")
    IN  /\ heap' = out.heap
        /\ result' = [fn |-> "splitPotentialEnergy",
                      arg |-> heap.caller, value |-> out.value]
        /\ UNCHANGED <<held, last, src, obj, lastOp, nimports, lastGroup>>

CallCountDegreesOfFreedom ==
    /\ result' = [fn |-> "countDegreesOfFreedom",
                  arg |-> heap.caller,
                  dof |-> countDegreesOfFreedom(heap.caller)]
    /\ UNCHANGED <<held, last, heap, src, obj, lastOp, nimports, lastGroup>>

InitEnergy ==
    /\ held = None
    /\ last = NoCall
    /\ \E forces \in SeqsUpTo(ForceRecs, MaxForces) :
           heap = [caller |-> [EmptySystem EXCEPT !.forces = forces],
                   copy |-> EmptySystem]
    /\ result = NoResult
    /\ src = EmptySource
    /\ obj = None
    /\ lastOp = "none"
    /\ nimports = 0
    /\ lastGroup = 0

NextEnergy == CallSplitPotentialEnergy

SpecEnergy == InitEnergy /\ [][NextEnergy]_vars

InitDof ==
    /\ held = None
    /\ last = NoCall
    /\ \E masses \in SeqsUpTo(Masses, MaxParticles),
          constraints \in 0..MaxConstraints :
           heap = [caller |-> [forces |-> <<>>, masses |-> masses,
                               constraints |-> constraints],
                   copy |-> EmptySystem]
    /\ result = NoResult
    /\ src = EmptySource
    /\ obj = None
    /\ lastOp = "none"
    /\ nimports = 0
    /\ lastGroup = 0

NextDof == CallCountDegreesOfFreedom

SpecDof == InitDof /\ [][NextDof]_vars

(***************************************************************************)
(* utils.py: hijackForce.  Here each force of a System carries id, the      *)
(* identity of the toolkit object, so that an object and a copy of it       *)
(* differ; cls, group and e stand for its parameters.                       *)
(***************************************************************************)
\* The identities in use: the forces of the system and the force the caller
\* got from an earlier call.
IdsOf(forces) == {forces[i].id : i \in 1..Len(forces)}
LiveIds(system, res) ==
    IdsOf(system.forces) \cup
        (IF res.fn = "hijackForce" /\ ~res.raised THEN {res.value.id} ELSE {})

\* deepcopy(force): a new object with the parameters of force
deepcopyForce(force, live) ==
    [force EXCEPT !.id = CHOOSE n \in 1..(Cardinality(live) + 1) : n \notin live]

\* system.getForce(index), system.removeForce(index): the toolkit raises on an
\* index outside 0..getNumForces()-1
ValidIndex(system, index) == 0 <= index /\ index < Len(system.forces)

\* system.removeForce(index)
\* (removeForceAlt: the last force removed, whatever the index.)
removeForceAlt(system, index) ==
    [system EXCEPT !.forces = SubSeq(@, 1, Len(@) - 1)]
removeForce(system, index) ==
    [system EXCEPT !.forces = SubSeq(@, 1, index) \o SubSeq(@, index + 2, Len(@))]

\* hijackForce(system, index): the heap afterwards and the force returned
hijackForce(h, system, index, live) ==
    IF ~ValidIndex(h[system], index)
    THEN [heap |-> h, raised |-> TRUE, value |-> None]
    ELSE LET force == deepcopyForce(h[system].forces[index + 1], live)
         IN  [heap |-> [h EXCEPT ![system] = removeForce(h[system], index)],
              raised |-> FALSE,
              value |-> force]

CallHijackForce ==
    \E index \in (0 - 1)..MaxForces :
        LET out == hijackForce(heap, "caller", index, LiveIds(heap.caller, result))
        IN  /\ heap' = out.heap
            /\ result' = [fn |-> "hijackForce", arg |-> heap.caller,
                          index |-> index, raised |-> out.raised,
                          value |-> out.value]
            /\ UNCHANGED <<held, last, src, obj, lastOp, nimports, lastGroup>>

\* The systems hijackForce is called on: force i is the object with identity i.
WithIds(forces) ==
    [i \in 1..Len(forces) |->
        [cls |-> forces[i].cls, group |-> forces[i].group, e |-> forces[i].e,
         id |-> i]]

InitHijack ==
    /\ held = None
    /\ last = NoCall
    /\ \E forces \in SeqsUpTo(ForceRecs, MaxForces) :
           heap = [caller |-> [EmptySystem EXCEPT !.forces = WithIds(forces)],
                   copy |-> EmptySystem]
    /\ result = NoResult
    /\ src = EmptySource
    /\ obj = None
    /\ lastOp = "none"
    /\ nimports = 0
    /\ lastGroup = 0

NextHijack == CallHijackForce

SpecHijack == InitHijack /\ [][NextHijack]_vars

(***************************************************************************)
(* forces.py: importing parameters from an openmm.NonbondedForce, which     *)
(* holds per-particle parameters and exceptions (i, j, chargeprod, sigma,   *)
(* epsilon), at most one per pair of particles.                             *)
(***************************************************************************)
SourceParticles ==
    << [charge |-> 1, sigma |-> 1, epsilon |-> 1],
       [charge |-> 0 - 1, sigma |-> 2, epsilon |-> 1],
       [charge |-> 1, sigma |-> 2, epsilon |-> 0] >>
SourcePairs == << <<0, 1>>, <<0, 2>>, <<1, 2>> >>
ChargeProds == {0, 1}
Epsilons == {0, 1}

\* The exception lists of the source: pairs in the order of SourcePairs, from
\* position 'from' on, at most n of them, sigma given by the pair.
RECURSIVE ExceptionLists(_, _)
ExceptionLists(from, n) ==
    IF n = 0 \/ from > Len(SourcePairs) THEN {<<>>}
    ELSE {<<>>} \cup
         UNION { { <<[i |-> SourcePairs[p][1], j |-> SourcePairs[p][2],
                      chargeprod |-> q, sigma |-> p, epsilon |-> e]>> \o rest :
                   rest \in ExceptionLists(p + 1, n - 1),
                   q \in ChargeProds, e \in Epsilons } :
                 p \in from..Len(SourcePairs) }

Done(kernel) == [kernel |-> kernel, raised |-> FALSE]
Failed(kernel) == [kernel |-> kernel, raised |-> TRUE]

\* openmm.NonbondedForce.addException refuses a second exception for a pair.
HasException(kernel, i, j) ==
    \E n \in 1..Len(kernel.exceptions) :
        {kernel.exceptions[n].i, kernel.exceptions[n].j} = {i, j}

\* _NonbondedForce.importFrom: the exception as it is added, 0.0*chargeprod
\* and 0.0*epsilon.  (ZeroedAlt: the exception copied as it is.)
ZeroedAlt(x) == x
Zeroed(x) == [x EXCEPT !.chargeprod = 0 * x.chargeprod,
                       !.epsilon = 0 * x.epsilon]

\* _NonbondedForce.importFrom: the loop over the exceptions
RECURSIVE _NonbondedForce_addExceptions(_, _, _)
_NonbondedForce_addExceptions(self, force, index) ==
    IF index > Len(force.exceptions)
    THEN Done(self)
    ELSE LET x == force.exceptions[index]
         IN  IF HasException(self, x.i, x.j)
             THEN Failed(self)
             ELSE _NonbondedForce_addExceptions(
                      [self EXCEPT !.exceptions = Append(@, Zeroed(x))],
                      force, index + 1)

\* _NonbondedForce.importFrom
_NonbondedForce_importFrom(self, force) ==
    _NonbondedForce_addExceptions(
        [self EXCEPT !.particles = @ \o force.particles], force, 1)

\* _CustomNonbondedForce.importFrom
_CustomNonbondedForce_importFrom(self, force) ==
    Done([self EXCEPT
            !.particles = @ \o force.particles,
            !.exclusions = @ \o [n \in 1..Len(force.exceptions) |->
                                    [i |-> force.exceptions[n].i,
                                     j |-> force.exceptions[n].j]]])

\* _CustomBondForce.importFrom: which exceptions become bonds
\* (IsBondAlt: the same with 'and' for 'or'.)
IsBondAlt(x) == x.chargeprod /= 0 /\ x.epsilon /= 0
IsBond(x) == x.chargeprod /= 0 \/ x.epsilon /= 0

\* _CustomBondForce.importFrom
_CustomBondForce_importFrom(self, force) ==
    Done([self EXCEPT !.bonds = @ \o SelectSeq(force.exceptions, IsBond)])

\* f.importFrom(force), by the class of f
Kernel_importFrom(f, force) ==
    IF f.cls = "_NonbondedForce" THEN _NonbondedForce_importFrom(f, force)
    ELSE IF f.cls = "_CustomNonbondedForce"
         THEN _CustomNonbondedForce_importFrom(f, force)
         ELSE _CustomBondForce_importFrom(f, force)

\* Force.importFrom: for f in self.forces: f.importFrom(force); an exception
\* of the toolkit ends the loop with the later members untouched
RECURSIVE importFromLoop(_, _, _)
importFromLoop(self, force, n) ==
    IF n > Len(self.forces)
    THEN [self |-> self, raised |-> FALSE]
    ELSE LET out == Kernel_importFrom(self.forces[n], force)
             next == [self EXCEPT !.forces[n] = out.kernel]
         IN  IF out.raised
             THEN [self |-> next, raised |-> TRUE]
             ELSE importFromLoop(next, force, n + 1)
importFrom(self, force) == importFromLoop(self, force, 1)

\* Force.includeExceptions
\* (includeExceptionsAlt: the new kernel left in the group it is created in.
\* includeExceptionsFirstAlt: the new kernel put at the head of the list.)
includeExceptionsAlt(self) ==
    [self EXCEPT !.forces = Append(@, _CustomBondForce)]
includeExceptionsFirstAlt(self) ==
    LET exceptions == KernelSetForceGroup(_CustomBondForce, self.forces[1].group)
    IN  [self EXCEPT !.forces = <<exceptions>> \o @]
includeExceptions(self) ==
    LET exceptions == KernelSetForceGroup(_CustomBondForce, getForceGroup(self))
    IN  [self EXCEPT !.forces = Append(@, exceptions)]

\* Force.addTo.  The System the Force is added to is heap.caller; its force
\* list holds references to the member kernels, a member being referred to by
\* its position in self.forces (the list only grows at its end).  The
\* toolkit's System.addForce takes ownership of the kernel and refuses a
\* kernel that a System already owns.
Owned(system, member) ==
    \E i \in 1..Len(system.forces) : system.forces[i] = member

\* Force.addTo: for force in self.forces: system.addForce(force)
RECURSIVE addToLoop(_, _, _)
addToLoop(self, system, n) ==
    IF n > Len(self.forces)
    THEN [system |-> system, raised |-> FALSE]
    ELSE IF Owned(system, n)
         THEN [system |-> system, raised |-> TRUE]
         ELSE addToLoop(self,
                        [system EXCEPT !.forces = Append(@, n)],
                        n + 1)
addTo(self, system) == addToLoop(self, system, 1)

\* The number of members the constructor of the class gives a Force.
BaseMembers(self) == IF self.cls = "FarNonbondedForce" THEN 2 ELSE 1

TriedGroups == {0, 1, 2}

CallSetForceGroup ==
    \E group \in TriedGroups :
        /\ obj' = setForceGroup(obj, group)
        /\ lastOp' = "setForceGroup"
        /\ lastGroup' = group
        /\ UNCHANGED <<held, last, heap, result, src, nimports>>

CallIncludeExceptions ==
    /\ Len(obj.forces) - BaseMembers(obj) < MaxIncludes
    /\ obj' = includeExceptions(obj)
    /\ lastOp' = "includeExceptions"
    /\ UNCHANGED <<held, last, heap, result, src, nimports, lastGroup>>

CallImportFrom ==
    LET out == importFrom(obj, src)
    IN  /\ nimports < MaxImports
        /\ nimports' = nimports + 1
        /\ obj' = out.self
        /\ lastOp' = IF out.raised THEN "importFrom: OpenMMException"
                                   ELSE "importFrom"
        /\ UNCHANGED <<held, last, heap, result, src, lastGroup>>

CallAddTo ==
    LET out == addTo(obj, heap.caller)
    IN  /\ heap' = [heap EXCEPT !.caller = out.system]
        /\ lastOp' = IF out.raised THEN "addTo: Exception" ELSE "addTo"
        /\ UNCHANGED <<held, last, result, src, obj, nimports, lastGroup>>

\* The Force objects parameters are imported into: one of each class.
ImportTargets ==
    LET near == NearNonbondedForce(2, 1, TRUE).obj
    IN  { DampedSmoothedForce(1, 2, 1, 1).obj,
          NonbondedExceptionsForce.obj,
          near,
          FarNonbondedForce(near, 3, NoDist, "PME").obj }

InitImport ==
    /\ held = None
    /\ last = NoCall
    /\ heap = [caller |-> EmptySystem, copy |-> EmptySystem]
    /\ result = NoResult
    /\ \E exceptions \in ExceptionLists(1, MaxExceptions) :
           src = [particles |-> SourceParticles, exceptions |-> exceptions]
    /\ obj \in ImportTargets
    /\ lastOp = "none"
    /\ nimports = 0
    /\ lastGroup = 0

NextImport ==
    \/ CallSetForceGroup
    \/ CallIncludeExceptions
    \/ CallImportFrom
    \/ CallAddTo

SpecImport == InitImport /\ [][NextImport]_vars

(***************************************************************************)
(* Properties of the constructors and of the energy expressions.           *)
(***************************************************************************)
IsOne(q) == q.den /= 0 /\ q.num = q.den
IsZero(q) == q.den /= 0 /\ q.num = 0

\* C1: a DampedSmoothedForce call whose distances have switch_distance < 0 or
\* switch_distance >= cutoff_distance raises InputError, whatever the degree,
\* and it raises before any kernel object is created.
C1_BadDistancesRaise ==
    last.op = "DampedSmoothedForce" =>
        ((last.sw[1] < 0 \/ last.sw[1] >= last.cut[1]) =>
            (last.raised /\ last.created = 0))

\* C1 witness: the call was made with switch_distance = cutoff_distance > 0.
C1_Witness ==
    /\ last.op = "DampedSmoothedForce"
    /\ last.sw[1] = last.cut[1]
    /\ last.cut[1] > 0
    /\ last.raised

\* C2: a FarNonbondedForce call raises InputError exactly when 'preceding' is
\* not a NearNonbondedForce, whatever the other arguments.
C2_FarNeedsNear ==
    last.op = "FarNonbondedForce" =>
        (last.raised <=> last.prec.cls /= "NearNonbondedForce")

\* C2 witness: a FarNonbondedForce call on a DampedSmoothedForce was refused.
C2_Witness ==
    /\ last.op = "FarNonbondedForce"
    /\ last.prec.cls = "DampedSmoothedForce"
    /\ last.raised

\* C8 (as amended): for a FarNonbondedForce built from a NearNonbondedForce the
\* toolkit can evaluate (0 <= rs < rc), 'discount' is the exact negation of the
\* Near energy at every r <= rc that lies inside the Far force's own cutoff
\* (every r <= rc when cutoff_distance >= rc), and is zero for r > rc.
C8_DiscountNegatesNearInsideCutoff ==
    (/\ last.op = "FarNonbondedForce"
     /\ ~last.raised
     /\ Evaluable(last.prec.forces[1])) =>
        \A r \in Dists : \A pot \in PairPotentials({r, last.prec.rcut}) :
            LET near == KernelEnergy(last.prec.forces[1], pot, r)
                discount == KernelEnergy(held.forces[2], pot, r)
                rc == last.prec.rcut
                cutoff == held.forces[2].cutoff
            IN  /\ (r <= rc /\ (r < cutoff \/ cutoff >= rc)) =>
                       RatEq(discount, RatNeg(near))
                /\ r > rc => IsZero(discount)

\* C8 witness: a shifted Near force with rs = 1, rc = 3 (so that r = 2 lies in
\* the switching region) and a Far force built from it with cutoff 3.
C8_Witness ==
    /\ last.op = "FarNonbondedForce"
    /\ ~last.raised
    /\ last.prec.rswitch = 1
    /\ last.prec.rcut = 3
    /\ last.prec.shifted
    /\ held.forces[2].cutoff = 3
    /\ \E pot \in PairPotentials({2, 3}) :
           ~IsZero(KernelEnergy(held.forces[2], pot, 2))

\* C8 (as stated): 'discount' is the exact negation of the Near energy at
\* every r <= rc, and zero for r > rc.
C8_DiscountNegatesNear ==
    (/\ last.op = "FarNonbondedForce"
     /\ ~last.raised
     /\ Evaluable(last.prec.forces[1])) =>
        \A r \in Dists : \A pot \in PairPotentials({r, last.prec.rcut}) :
            LET near == KernelEnergy(last.prec.forces[1], pot, r)
                discount == KernelEnergy(held.forces[2], pot, r)
                rc == last.prec.rcut
            IN  /\ r <= rc => RatEq(discount, RatNeg(near))
                /\ r > rc => IsZero(discount)

\* C9: the explicit multiplier S written into an energy expression is exactly
\* 1 at rswitch, exactly 0 at rcut, and 1 at every r < rswitch, whenever
\* 0 <= rswitch < rcut: in DampedSmoothedForce (degree /= 1) and in the
\* 'discount' member of FarNonbondedForce.
C9_SwitchEndpoints ==
    /\ (held.cls = "DampedSmoothedForce" /\ held.forces[1].energy.explicitS) =>
           LET k == held.forces[1]
               rs == k.globals.rswitch
               rc == k.globals.rcut
           IN  (0 <= rs /\ rs < rc) =>
                   /\ IsOne(DampedSmoothedS(k, rs))
                   /\ IsZero(DampedSmoothedS(k, rc))
                   /\ \A r \in Dists : r < rs => IsOne(DampedSmoothedS(k, r))
    /\ held.cls = "FarNonbondedForce" =>
           LET k == held.forces[2]
               rs == k.globals.rs
               rc == k.globals.rc
           IN  (0 <= rs /\ rs < rc) =>
                   /\ IsOne(DiscountS(k, rs))
                   /\ IsZero(DiscountS(k, rc))
                   /\ \A r \in Dists : r < rs => IsOne(DiscountS(k, r))

\* C9 witness: a DampedSmoothedForce of degree 2 with 0 < r < rswitch < rcut
\* on the grid.
C9_Witness ==
    /\ held.cls = "DampedSmoothedForce"
    /\ held.forces[1].energy.degree = 2
    /\ held.forces[1].globals.rswitch = 2
    /\ held.forces[1].globals.rcut = 3

\* C10: the test's call DampedSmoothedForce(alpha, rswitch, rcut, degree=d),
\* with 0 <= rswitch < rcut, constructs the force without raising InputError.
C10_TestCallConstructs ==
    last.op = "execute" => ~last.raised

\* The kernels of a Force object that have a cutoff and an optional switch.
Switchable(self) ==
    {k \in 1..Len(self.forces) :
        self.forces[k].cls \in {"_NonbondedForce", "_CustomNonbondedForce"}}

\* C11: every kernel of a constructed Force object that has switching enabled
\* satisfies 0 <= switch_distance < cutoff_distance.
C11_SwitchInsideCutoff ==
    held /= None =>
        \A k \in Switchable(held) :
            held.forces[k].useSwitch =>
                /\ 0 <= held.forces[k].switchDist[1]
                /\ held.forces[k].switchDist[1] < held.forces[k].cutoff

\* C13: in a DampedSmoothedForce exactly one switching mechanism is active:
\* with degree = 1 the multiplier of the expression is the constant S = 1 and
\* the kernel's built-in switching function is enabled with the given
\* switch_distance; with degree /= 1 the explicit multiplier S(u) in r^degree
\* is emitted (read here at the distances up to the cutoff) and the built-in
\* switching function is disabled.
C13_OneSwitchingMechanism ==
    held.cls = "DampedSmoothedForce" =>
        LET k == held.forces[1]
        IN  /\ k.energy.explicitS <=> ~k.useSwitch
            /\ k.energy.degree = 1 =>
                   /\ ~k.energy.explicitS
                   /\ \A r \in Dists : DampedSmoothedS(k, r) = Rat(1, 1)
                   /\ k.useSwitch
                   /\ k.switchDist = Some(k.globals.rswitch)
            /\ k.energy.degree /= 1 =>
                   /\ k.energy.explicitS
                   /\ \A r \in {d \in Dists : d <= k.cutoff} :
                          DampedSmoothedS(k, r) =
                              ExplicitS(r, k.globals.rswitch, k.globals.rcut,
                                        k.energy.degree)
                   /\ ~k.useSwitch
                   /\ k.switchDist = NoDist
            /\ (last.op = "DampedSmoothedForce" /\ ~last.raised) =>
                   /\ k.globals.rswitch = last.sw[1]
                   /\ k.cutoff = last.cut[1]

\* C13 witness: DampedSmoothedForce(alpha, 2, 1, degree = 1) was constructed,
\* its kernel switching from 1 to 2 by the built-in function.
C13_Witness ==
    /\ last.op = "DampedSmoothedForce"
    /\ ~last.raised
    /\ held.cls = "DampedSmoothedForce"
    /\ held.forces[1].energy.degree = 1
    /\ held.forces[1].switchDist = Some(1)
    /\ held.forces[1].cutoff = 2

(***************************************************************************)
(* Properties of utils.py.                                                 *)
(***************************************************************************)
RECURSIVE SumOver(_, _)
SumOver(f, S) ==
    IF S = {} THEN 0
    ELSE LET x == CHOOSE y \in S : TRUE
         IN  f[x] + SumOver(f, S \ {x})

\* The number of forces before position i that have the class of force i.
Earlier(forces, i) ==
    Cardinality({j \in 1..(i - 1) : forces[j].cls = forces[i].cls})

\* The key the claims give force i: its class name for the first of a class,
\* "class(k)" for the k-th later one.
KeyOf(forces, i) ==
    IF Earlier(forces, i) = 0
    THEN Bare(forces[i].cls)
    ELSE Numbered(forces[i].cls, Earlier(forces, i))

\* C3: in the mapping splitPotentialEnergy returns, "Total" is the sum of all
\* the other entries.
C3_TotalIsSum ==
    result.fn = "splitPotentialEnergy" =>
        /\ Total \in DOMAIN result.value
        /\ result.value[Total] =
               SumOver(result.value, (DOMAIN result.value) \ {Total})

\* C3 witness: a split of a system with three forces, two of one class.
C3_Witness ==
    /\ result.fn = "splitPotentialEnergy"
    /\ Len(result.arg.forces) = 3
    /\ Numbered("NonbondedForce", 1) \in DOMAIN result.value
    /\ Bare("HarmonicBondForce") \in DOMAIN result.value

\* C4: the mapping has exactly one entry per force, plus "Total": force i is
\* keyed by its class name if it is the first of its class and by "class(k)"
\* if it is the k-th later one, the keys are distinct, and the entry holds the
\* energy of that force alone.
C4_OneEntryPerForce ==
    result.fn = "splitPotentialEnergy" =>
        LET forces == result.arg.forces
            keys == {KeyOf(forces, i) : i \in 1..Len(forces)}
        IN  /\ DOMAIN result.value = keys \cup {Total}
            /\ Cardinality(DOMAIN result.value) = Len(forces) + 1
            /\ \A i \in 1..Len(forces) :
                   result.value[KeyOf(forces, i)] = forces[i].e

\* C4 witness: three forces of one class, all in force group 0 in the
\* caller's system, with different energies.
C4_Witness ==
    /\ result.fn = "splitPotentialEnergy"
    /\ Len(result.arg.forces) = 3
    /\ \A i \in 1..3 : /\ result.arg.forces[i].cls = "NonbondedForce"
                       /\ result.arg.forces[i].group = 0
    /\ result.arg.forces[1].e /= result.arg.forces[2].e
    /\ Numbered("NonbondedForce", 2) \in DOMAIN result.value

\* C5: splitPotentialEnergy leaves the caller's system as it was (same forces,
\* same order, same force groups); the regrouping is done on the copy.
C5_CallerSystemUnchanged ==
    result.fn = "splitPotentialEnergy" => heap.caller = result.arg

\* C5 witness: after a split, the copy has force i in group i - 1 while the
\* caller's system still has a force in another group.
C5_Witness ==
    /\ result.fn = "splitPotentialEnergy"
    /\ Len(heap.caller.forces) >= 2
    /\ \A i \in 1..Len(heap.copy.forces) : heap.copy.forces[i].group = i - 1
    /\ \E i \in 1..Len(heap.caller.forces) : heap.caller.forces[i].group /= i - 1

\* C6: countDegreesOfFreedom returns 3 * (number of particles with mass > 0)
\* - 3 - (number of constraints), also when that is zero or negative.
C6_DofFormula ==
    result.fn = "countDegreesOfFreedom" =>
        LET sys == result.arg
            moving == {i \in 1..Len(sys.masses) : sys.masses[i] > 0}
        IN  result.dof = 3 * Cardinality(moving) - 3 - sys.constraints

\* C6 witness: a system with a massless particle and a negative result.
C6_Witness ==
    /\ result.fn = "countDegreesOfFreedom"
    /\ \E i \in 1..Len(result.arg.masses) : result.arg.masses[i] = 0
    /\ \E i \in 1..Len(result.arg.masses) : result.arg.masses[i] > 0
    /\ result.dof < 0

\* C12: hijackForce(system, index) removes exactly the force at position
\* 'index' and returns a copy of it: the system has one force fewer, the
\* remaining forces are the same objects in the same relative order, and the
\* returned force is a new object with the parameters the removed force had.
C12_HijackRemovesOne ==
    (result.fn = "hijackForce" /\ ~result.raised) =>
        LET before == result.arg.forces
            after == heap.caller.forces
            i == result.index + 1
        IN  /\ Len(after) = Len(before) - 1
            /\ \A k \in 1..Len(after) :
                   after[k] = IF k < i THEN before[k] ELSE before[k + 1]
            /\ before[i].id \notin IdsOf(after)
            /\ result.value.id \notin IdsOf(before)
            /\ result.value.cls = before[i].cls
            /\ result.value.group = before[i].group
            /\ result.value.e = before[i].e

\* C12 witness: the middle one of three forces was hijacked, and it differs
\* in its parameters from the force after it.
C12_Witness ==
    /\ result.fn = "hijackForce"
    /\ ~result.raised
    /\ result.index = 1
    /\ Len(result.arg.forces) = 3
    /\ Len(heap.caller.forces) = 2
    /\ result.value.e /= result.arg.forces[3].e
    /\ result.value.cls /= result.arg.forces[1].cls

(***************************************************************************)
(* Properties of importFrom.                                               *)
(***************************************************************************)
Count(seq, x) == Cardinality({n \in 1..Len(seq) : seq[n] = x})
Pair(x) == [i |-> x.i, j |-> x.j]
Exclusion(x) == [i |-> x.i, j |-> x.j, chargeprod |-> 0,
                 sigma |-> x.sigma, epsilon |-> 0]

\* C7: an importFrom call gives every general kernel of the Force each
\* exception pair of the source as an exclusion (_CustomNonbondedForce) or as
\* an exception with chargeprod = 0, epsilon = 0 and the original sigma
\* (_NonbondedForce), and gives every exceptions kernel (_CustomBondForce) the
\* pair as one bond with its parameters unchanged if chargeprod /= 0 or
\* epsilon /= 0, and no bond otherwise.
C7_ImportSplitsExceptions ==
    [][lastOp' = "importFrom" =>
        /\ Len(obj'.forces) = Len(obj.forces)
        /\ \A k \in 1..Len(obj.forces) :
             LET before == obj.forces[k]
                 after == obj'.forces[k]
                 n == Len(src.exceptions)
                 nonzero == {m \in 1..n : src.exceptions[m].chargeprod /= 0
                                          \/ src.exceptions[m].epsilon /= 0}
             IN  /\ before.cls = "_CustomNonbondedForce" =>
                       /\ Len(after.exclusions) = Len(before.exclusions) + n
                       /\ \A m \in 1..n :
                            Count(after.exclusions, Pair(src.exceptions[m]))
                              = Count(before.exclusions, Pair(src.exceptions[m])) + 1
                 /\ before.cls = "_NonbondedForce" =>
                       /\ Len(after.exceptions) = Len(before.exceptions) + n
                       /\ \A m \in 1..n :
                            Count(after.exceptions, Exclusion(src.exceptions[m]))
                              = Count(before.exceptions,
                                      Exclusion(src.exceptions[m])) + 1
                 /\ before.cls = "_CustomBondForce" =>
                       /\ Len(after.bonds) = Len(before.bonds) + Cardinality(nonzero)
                       /\ \A m \in 1..n :
                            Count(after.bonds, src.exceptions[m])
                              = Count(before.bonds, src.exceptions[m])
                                + (IF m \in nonzero THEN 1 ELSE 0)]_vars

\* C7 witness: after one import into a Force with a general kernel and an
\* exceptions kernel, from a source with an all-zero exception and a non-zero
\* one, the general kernel has two exclusions and the exceptions kernel one
\* bond.
C7_Witness ==
    /\ lastOp = "importFrom"
    /\ nimports = 1
    /\ Len(src.exceptions) = 2
    /\ \E m \in 1..2 : src.exceptions[m].chargeprod = 0
                       /\ src.exceptions[m].epsilon = 0
    /\ Len(obj.forces) = 2
    /\ obj.forces[1].cls = "_CustomNonbondedForce"
    /\ Len(obj.forces[1].exclusions) = 2
    /\ obj.forces[2].cls = "_CustomBondForce"
    /\ Len(obj.forces[2].bonds) = 1

\* C14: all the member forces of a Force object carry the same force group:
\* 0 after construction, and after any sequence of setForceGroup,
\* includeExceptions and importFrom calls the group given to the most recent
\* setForceGroup (0 if none); getForceGroup returns that group.
C14_MembersShareGroup ==
    /\ \A k \in 1..Len(obj.forces) : obj.forces[k].group = lastGroup
    /\ getForceGroup(obj) = lastGroup

\* C14 witness: a FarNonbondedForce was put in group 2 and includeExceptions
\* was called afterwards; its three members are in group 2.
C14_Witness ==
    /\ lastOp = "includeExceptions"
    /\ lastGroup = 2
    /\ obj.cls = "FarNonbondedForce"
    /\ Len(obj.forces) = 3
    /\ obj.forces[3].cls = "_CustomBondForce"
    /\ obj.forces[3].group = 2

\* The exceptions of the source that are not exclusions, in order.
NonExclusions(force) ==
    SelectSeq(force.exceptions,
              LAMBDA x : x.chargeprod /= 0 \/ x.epsilon /= 0)

\* The members includeExceptions appended to a Force object.
Appended(self) == (BaseMembers(self) + 1)..Len(self.forces)

\* C15: the effect of includeExceptions depends on the order of the calls.
\* The kernel it appends is a new exceptions kernel without bonds, whatever was
\* imported before, and it is not among the forces of the system an earlier
\* addTo filled, which the call leaves as they are; an appended kernel gets
\* bonds from importFrom calls only, and a successful importFrom gives it the
\* non-exclusion exceptions of the source.
C15_IncludeOrderMatters ==
    [][/\ lastOp' = "includeExceptions" =>
            LET n == Len(obj'.forces)
            IN  /\ n = Len(obj.forces) + 1
                /\ \A k \in 1..Len(obj.forces) : obj'.forces[k] = obj.forces[k]
                /\ obj'.forces[n].cls = "_CustomBondForce"
                /\ obj'.forces[n].bonds = <<>>
                /\ heap'.caller = heap.caller
                /\ ~Owned(heap'.caller, n)
       /\ lastOp' \notin {"importFrom", "importFrom: OpenMMException"} =>
            \A k \in Appended(obj) : obj'.forces[k].bonds = obj.forces[k].bonds
       /\ lastOp' = "importFrom" =>
            \A k \in Appended(obj) :
                obj'.forces[k].bonds = obj.forces[k].bonds \o NonExclusions(src)
      ]_vars

\* C15 witness: parameters with a non-exclusion exception were imported into a
\* NonbondedExceptionsForce and the Force was added to the system, and
\* includeExceptions was called afterwards: the first kernel has the bond and
\* is in the system, the appended kernel has no bond and is not.
C15_Witness ==
    /\ lastOp = "includeExceptions"
    /\ nimports = 1
    /\ obj.cls = "NonbondedExceptionsForce"
    /\ Len(obj.forces) = 2
    /\ Len(obj.forces[1].bonds) = 1
    /\ obj.forces[2].bonds = <<>>
    /\ heap.caller.forces = <<1>>

=============================================================================
